---- MODULE Spec2Model ----
(***************************************************************************)
(* Model of the Unmanic library file-test plugin                           *)
(* de_dts_without_de_ac3_eac3_truehd (plugin.py).                          *)
(*                                                                         *)
(* Python strings are modelled as sequences of one-character strings, so   *)
(* that split, strip, lower and startswith are computed character by       *)
(* character.  Python dicts are modelled as functions whose DOMAIN is the  *)
(* set of keys that are present.                                           *)
(***************************************************************************)
EXTENDS Integers, Sequences, FiniteSets, TLC

VARIABLES data, settings, call, norm, eval

vars == <<data, settings, call, norm, eval>>

(***************************************************************************)
(* Bounds                                                                  *)
(***************************************************************************)
MaxCalls == 2
MaxStreams == 1
MaxEvalStreams == 2
MaxRawLen == 4

(***************************************************************************)
(* Python values and string primitives                                     *)
(***************************************************************************)
\* Python's None where a string is expected: a sequence no string equals,
\* because every element of a string is a single character.
None == <<"None">>

\* dict.get(key): the value, or None when the key is absent
Get(d, k) == IF k \in DOMAIN d THEN d[k] ELSE None

\* (x or ""): None and "" both become ""
OrEmpty(x) == IF x = None THEN <<>> ELSE x

\* (d.get(key) or {}): an absent key becomes the empty dict
GetDict(d, k) == IF k \in DOMAIN d THEN d[k] ELSE <<>>

\* truthiness of an optional string: `not x` holds for None and for ""
Falsy(x) == x = None \/ x = <<>>

Whitespace == {" "}

UpperToLower ==
  [A |-> "a", C |-> "c", D |-> "d", E |-> "e", G |-> "g", H |-> "h",
   N |-> "n", R |-> "r", S |-> "s", T |-> "t", U |-> "u", X |-> "x"]

LowerChar(c) == IF c \in DOMAIN UpperToLower THEN UpperToLower[c] ELSE c

\* str.lower()
lower(s) == [i \in 1..Len(s) |-> LowerChar(s[i])]

\* str.strip()
strip(s) ==
  LET keep == {i \in 1..Len(s) : s[i] \notin Whitespace}
  IN IF keep = {} THEN <<>>
     ELSE LET lo == CHOOSE i \in keep : \A j \in keep : i <= j
              hi == CHOOSE i \in keep : \A j \in keep : j <= i
          IN SubSeq(s, lo, hi)

\* str.split(sep) for a one-character separator
RECURSIVE split(_, _)
split(s, sep) ==
  LET at == {i \in 1..Len(s) : s[i] = sep}
  IN IF at = {} THEN <<s>>
     ELSE LET i == CHOOSE k \in at : \A j \in at : k <= j
          IN <<SubSeq(s, 1, i - 1)>> \o split(SubSeq(s, i + 1, Len(s)), sep)

\* str.startswith(prefix)
startswith(s, prefix) ==
  Len(s) >= Len(prefix) /\ SubSeq(s, 1, Len(prefix)) = prefix

\* x in list
InList(x, l) == \E i \in 1..Len(l) : l[i] = x

(***************************************************************************)
(* String literals of the source                                           *)
(***************************************************************************)
Audio == <<"a", "u", "d", "i", "o">>
Dts == <<"d", "t", "s">>
Ac3 == <<"a", "c", "3">>
Eac3 == <<"e", "a", "c", "3">>
TrueHd == <<"t", "r", "u", "e", "h", "d">>
PluginId == "de_dts_without_de_ac3_eac3_truehd"
MsgNoPath == "Kein Dateipfad im Plugin-Runner verfuegbar."
MsgNoStreams == "ffprobe lieferte keine Audio-Streams - Datei wird nicht explizit gefiltert."
MsgAdmit == "Datei enthaelt DE-DTS, aber keine DE-AC3/EAC3/TrueHD - fuer EAC3-Transcode zulassen."
MsgIgnore == "Datei ignoriert: Entweder keine DE-DTS-Spur oder bereits DE-AC3/EAC3/TrueHD vorhanden."
FlagKey == "add_file_to_pending_tasks"
\* (the messages are written here without their umlauts)

(***************************************************************************)
(* _parse_lang_tags                                                        *)
(***************************************************************************)
\* mutant: the pieces are trimmed but not lowercased
_parse_lang_tags_nolower(raw) ==
  IF Falsy(raw) THEN <<>>
  ELSE LET pieces == split(raw, ",")
           kept == SelectSeq(pieces, LAMBDA t : strip(t) # <<>>)
       IN [i \in 1..Len(kept) |-> strip(kept[i])]

\* mutant: the piece filter tests `if t` instead of `if t.strip()`
_parse_lang_tags_keepblank(raw) ==
  IF Falsy(raw) THEN <<>>
  ELSE LET pieces == split(raw, ",")
           kept == SelectSeq(pieces, LAMBDA t : t # <<>>)
       IN [i \in 1..Len(kept) |-> lower(strip(kept[i]))]

_parse_lang_tags(raw) ==
  IF Falsy(raw) THEN <<>>
  ELSE LET pieces == split(raw, ",")
           kept == SelectSeq(pieces, LAMBDA t : strip(t) # <<>>)
       IN [i \in 1..Len(kept) |-> lower(strip(kept[i]))]

(***************************************************************************)
(* The external tool: what `ffprobe ... -of json path` can come back with  *)
(***************************************************************************)
\* One entry of the tool's "streams" array.  A key that ffprobe leaves out
\* is absent from the dict.
Entry(codec_type, codec_name, language) ==
  [codec_type |-> codec_type, codec_name |-> codec_name,
   tags |-> [language |-> language]]

EntryNoTags(codec_type, codec_name) ==
  [codec_type |-> codec_type, codec_name |-> codec_name]

Deu == <<"d", "e", "u">>
Eng == <<"e", "n", "g">>
Video == <<"v", "i", "d", "e", "o">>

ReportedEntries ==
  { Entry(Audio, <<"D", "T", "S", "h", "d">>, <<"D", "e", "u">>),
    Entry(Audio, TrueHd, Deu),
    EntryNoTags(Audio, Dts),
    Entry(Video, Dts, Deu) }

SeqUpTo(S, n) == UNION {[1..k -> S] : k \in 0..n}

\* subprocess.run raises (spawn failure, non-zero exit with check=True), or
\* the tool exits 0 and its stdout is: not JSON; JSON that is not an object;
\* a JSON object whose "streams" is absent, null, a non-zero number or an
\* array of entries.
ToolOutcomes ==
  { [kind |-> "spawn_failure"], [kind |-> "nonzero_exit"] }
  \cup { [kind |-> "exit0", stdout |-> [type |-> t]] :
           t \in {"invalid", "array", "null"} }
  \cup { [kind |-> "exit0", stdout |-> [type |-> "object", streams |-> [type |-> t]]] :
           t \in {"absent", "null", "number"} }
  \cup { [kind |-> "exit0",
          stdout |-> [type |-> "object", streams |-> [type |-> "array", items |-> l]]] :
           l \in SeqUpTo(ReportedEntries, MaxStreams) }

(***************************************************************************)
(* _ffprobe_audio_streams                                                  *)
(***************************************************************************)
\* [s for s in streams if s.get("codec_type") == "audio"]
AudioOnly(streams) ==
  SelectSeq(streams, LAMBDA s : Get(s, "codec_type") = Audio)

\* The result, or raised = TRUE when an exception leaves the function:
\* only subprocess.run's exceptions and json.JSONDecodeError are caught.
_ffprobe_audio_streams(path, outcome) ==
  IF outcome.kind # "exit0"
    THEN [raised |-> FALSE, streams |-> <<>>]
  ELSE IF outcome.stdout.type = "invalid"
    THEN [raised |-> FALSE, streams |-> <<>>]
  ELSE IF outcome.stdout.type # "object"
    THEN [raised |-> TRUE, streams |-> <<>>]
  ELSE IF outcome.stdout.streams.type \in {"absent", "null"}
    THEN [raised |-> FALSE, streams |-> <<>>]
  ELSE IF outcome.stdout.streams.type # "array"
    THEN [raised |-> TRUE, streams |-> <<>>]
  ELSE [raised |-> FALSE, streams |-> AudioOnly(outcome.stdout.streams.items)]

(***************************************************************************)
(* _has_de_dts_and_no_de_good                                              *)
(***************************************************************************)
good_codecs(treat_truehd_as_good) ==
  {Ac3, Eac3} \cup (IF treat_truehd_as_good THEN {TrueHd} ELSE {})

StreamCodec(stream) == lower(OrEmpty(Get(stream, "codec_name")))

StreamLang(stream) ==
  lower(OrEmpty(Get(GetDict(stream, "tags"), "language")))

\* mutant: the filter is applied even when it is empty
LangSkipped_always(lang, lang_tags) == ~InList(lang, lang_tags)

\* `if lang_tags and lang not in lang_tags: continue`
LangSkipped(lang, lang_tags) == lang_tags # <<>> /\ ~InList(lang, lang_tags)

\* mutant: equality with "dts" instead of the prefix test
IsDtsCodec_equal(codec) == codec = Dts

IsDtsCodec(codec) == startswith(codec, Dts)

\* mutant: a good codec is recorded only once a DTS stream has been seen
LoopBody_afterdts(acc, stream, lang_tags, treat_truehd_as_good) ==
  LET codec == StreamCodec(stream)
      lang == StreamLang(stream)
  IN IF LangSkipped(lang, lang_tags) THEN acc
     ELSE [has_de_dts |-> acc.has_de_dts \/ IsDtsCodec(codec),
           has_de_good |-> acc.has_de_good
                             \/ (acc.has_de_dts
                                 /\ codec \in good_codecs(treat_truehd_as_good))]

\* one iteration of `for stream in streams`
LoopBody(acc, stream, lang_tags, treat_truehd_as_good) ==
  LET codec == StreamCodec(stream)
      lang == StreamLang(stream)
  IN IF LangSkipped(lang, lang_tags) THEN acc
     ELSE [has_de_dts |-> acc.has_de_dts \/ IsDtsCodec(codec),
           has_de_good |-> acc.has_de_good
                             \/ codec \in good_codecs(treat_truehd_as_good)]

RECURSIVE Scan(_, _, _, _)
Scan(acc, streams, lang_tags, treat_truehd_as_good) ==
  IF Len(streams) = 0 THEN acc
  ELSE Scan(LoopBody(acc, Head(streams), lang_tags, treat_truehd_as_good),
            Tail(streams), lang_tags, treat_truehd_as_good)

_has_de_dts_and_no_de_good(streams, lang_tags, treat_truehd_as_good) ==
  LET final == Scan([has_de_dts |-> FALSE, has_de_good |-> FALSE],
                    streams, lang_tags, treat_truehd_as_good)
  IN final.has_de_dts /\ ~final.has_de_good

(***************************************************************************)
(* on_library_management_file_test                                         *)
(***************************************************************************)
Issue(message) == [id |-> PluginId, message |-> message]

\* data[key] = value on a dict
SetKey(d, k, v) == [x \in DOMAIN d \cup {k} |-> IF x = k THEN v ELSE d[x]]

\* mutant: the issues list is replaced instead of appended to
AppendIssue_overwrite(d, issue) == [d EXCEPT !.issues = <<issue>>]

\* data["issues"].append(issue)
AppendIssue(d, issue) == [d EXCEPT !.issues = Append(@, issue)]

\* mutant: the no-streams branch blocks the file
NoStreamsBranch_block(d) ==
  AppendIssue(SetKey(d, FlagKey, FALSE), Issue(MsgNoStreams))

\* `if not path:` branch
NoPathBranch(d) == AppendIssue(d, Issue(MsgNoPath))

\* `if not streams:` branch
NoStreamsBranch(d) == AppendIssue(d, Issue(MsgNoStreams))

\* mutant: only an admitted file has its flag written
DecideBranch_admitonly(d, candidate) ==
  IF candidate
    THEN AppendIssue(SetKey(d, FlagKey, TRUE), Issue(MsgAdmit))
    ELSE AppendIssue(d, Issue(MsgIgnore))

\* `if candidate: ... else: ...`
DecideBranch(d, candidate) ==
  IF candidate
    THEN AppendIssue(SetKey(d, FlagKey, TRUE), Issue(MsgAdmit))
    ELSE AppendIssue(SetKey(d, FlagKey, FALSE), Issue(MsgIgnore))

\* The handler on dict d, with the two values the settings store returns and
\* the outcome of the tool for d's path.  The result holds the dict as the
\* handler leaves it, whether an exception left the handler, the branch it
\* took and the prober's result.
on_library_management_file_test(d, lang_raw, treat_setting, outcome) ==
  LET lang_tags == _parse_lang_tags(lang_raw)
      treat_truehd == treat_setting
      path == Get(d, "path")
  IN IF Falsy(path)
       THEN [raised |-> FALSE, branch |-> "no_path", streams |-> <<>>,
             data |-> NoPathBranch(d)]
     ELSE LET probe == _ffprobe_audio_streams(path, outcome)
          IN IF probe.raised
               THEN [raised |-> TRUE, branch |-> "raised", streams |-> <<>>,
                     data |-> d]
             ELSE IF Len(probe.streams) = 0
               THEN [raised |-> FALSE, branch |-> "no_streams", streams |-> <<>>,
                     data |-> NoStreamsBranch(d)]
             ELSE LET candidate ==
                        _has_de_dts_and_no_de_good(probe.streams, lang_tags, treat_truehd)
                  IN [raised |-> FALSE,
                      branch |-> IF candidate THEN "admitted" ELSE "not_admitted",
                      streams |-> probe.streams,
                      data |-> DecideBranch(d, candidate)]

(***************************************************************************)
(* Inputs                                                                  *)
(***************************************************************************)
MoviePath == <<"/", "m">>

\* The record the host passes: path may be missing, None or empty; issues
\* may already hold entries of other plugins; the flag may be unset.
ForeignIssue == [id |-> "other_plugin", message |-> "checked"]

InitialData ==
  LET base == { [issues |-> i] : i \in {<<>>, <<ForeignIssue>>} }
      withPath == base \cup { SetKey(b, "path", p) : b \in base, p \in {<<>>, MoviePath} }
  IN withPath \cup { SetKey(b, FlagKey, f) : b \in withPath, f \in BOOLEAN }

\* Values of "Preferred language tags (comma separated)"
DefaultLangRaw == <<"d", "e", "u", ",", "d", "e", ",", "g", "e", "r">>

LangRawSettings ==
  { None,
    <<>>,
    <<",", " ">>,
    DefaultLangRaw,
    <<" ", ",", "D", "e", "u">> }

\* What the settings store returns for the two keys
SettingsStore == [lang_raw : LangRawSettings, treat : BOOLEAN]

SettingsDefault == [lang_raw |-> DefaultLangRaw, treat |-> TRUE]

RawAlphabet == {"d", "E", " ", ","}

RawInputs == {None} \cup SeqUpTo(RawAlphabet, MaxRawLen)

\* Stream descriptors handed to the evaluator
EvalCodecs ==
  { Dts, <<"D", "T", "S", "h", "d">>, <<"d", "t">>, Ac3,
    <<"E", "A", "C", "3">>, <<"a", "c", "3", "x">>, TrueHd }

EvalLangs == { Deu, <<"D", "E", "U">>, <<"g", "e", "r">>, Eng }

EvalStreams ==
  { Entry(Audio, c, l) : c \in EvalCodecs, l \in EvalLangs }
  \cup { EntryNoTags(Audio, c) : c \in EvalCodecs }
  \cup { [codec_type |-> Audio, tags |-> [language |-> l]] : l \in EvalLangs }

EvalFilters == { <<>>, <<Deu>>, <<Deu, <<"g", "e", "r">> >> }

(***************************************************************************)
(* State machine                                                           *)
(***************************************************************************)
CallIdle ==
  [n |-> 0, outcome |-> [kind |-> "spawn_failure"],
   raised |-> FALSE, branch |-> "none", streams |-> <<>>, before |-> [issues |-> <<>>]]

NormIdle == [raw |-> None, out |-> <<>>, done |-> FALSE]

EvalIdle == [streams |-> <<>>, lang_tags |-> <<>>, treat |-> FALSE,
             result |-> FALSE, done |-> FALSE]

\* The host calls the handler on its record
Init ==
  /\ data \in InitialData
  /\ settings \in SettingsStore
  /\ call = CallIdle
  /\ norm = NormIdle
  /\ eval = EvalIdle

FileTest ==
  /\ call.n < MaxCalls
  /\ \E outcome \in ToolOutcomes :
       LET r == on_library_management_file_test(data, settings.lang_raw,
                                                settings.treat, outcome)
       IN /\ data' = r.data
          /\ call' = [n |-> call.n + 1, outcome |-> outcome, raised |-> r.raised,
                      branch |-> r.branch, streams |-> r.streams, before |-> data]
  /\ UNCHANGED <<settings, norm, eval>>

Next == FileTest

Spec == Init /\ [][Next]_vars

\* The normalizer applied to one raw string
InitNormalize ==
  /\ norm \in [raw : RawInputs, out : {<<>>}, done : {FALSE}]
  /\ data = [issues |-> <<>>]
  /\ settings = SettingsDefault
  /\ call = CallIdle
  /\ eval = EvalIdle

ParseLangTags ==
  /\ ~norm.done
  /\ norm' = [norm EXCEPT !.out = _parse_lang_tags(norm.raw), !.done = TRUE]
  /\ UNCHANGED <<data, settings, call, eval>>

NextNormalize == ParseLangTags

SpecNormalize == InitNormalize /\ [][NextNormalize]_vars

\* The evaluator applied to one stream list, filter and policy
InitEvaluate ==
  /\ eval \in [streams : SeqUpTo(EvalStreams, MaxEvalStreams), lang_tags : EvalFilters,
               treat : BOOLEAN, result : {FALSE}, done : {FALSE}]
  /\ data = [issues |-> <<>>]
  /\ settings = SettingsDefault
  /\ call = CallIdle
  /\ norm = NormIdle

Evaluate ==
  /\ ~eval.done
  /\ eval' = [eval EXCEPT
                !.result = _has_de_dts_and_no_de_good(eval.streams, eval.lang_tags, eval.treat),
                !.done = TRUE]
  /\ UNCHANGED <<data, settings, call, norm>>

NextEvaluate == Evaluate

SpecEvaluate == InitEvaluate /\ [][NextEvaluate]_vars

(***************************************************************************)
(* Vocabulary of the properties                                            *)
(***************************************************************************)
\* the flag as a set: empty when the key is unset
FlagOf(d) == IF FlagKey \in DOMAIN d THEN {d[FlagKey]} ELSE {}

IsPrefix(a, b) == Len(a) <= Len(b) /\ SubSeq(b, 1, Len(a)) = a

\* a lowercased codec name that begins with the three characters d, t, s
DtsPrefixed(codec) ==
  Len(codec) >= 3 /\ codec[1] = "d" /\ codec[2] = "t" /\ codec[3] = "s"

AcceptableCodecs(treatTrueHDAsGood) ==
  IF treatTrueHDAsGood THEN {Ac3, Eac3, TrueHd} ELSE {Ac3, Eac3}

\* the stream's language is in the filter, or there is no filter
LanguageMatching(stream, filter) ==
  filter = <<>> \/ \E k \in 1..Len(filter) : filter[k] = StreamLang(stream)

\* the admission rule over the streams at the indices in idx
Admits(streams, idx, filter, treatTrueHDAsGood) ==
  /\ \E i \in idx : /\ LanguageMatching(streams[i], filter)
                    /\ DtsPrefixed(StreamCodec(streams[i]))
  /\ ~ \E i \in idx : /\ LanguageMatching(streams[i], filter)
                      /\ StreamCodec(streams[i]) \in AcceptableCodecs(treatTrueHDAsGood)

\* the entries the tool reported as an array under "streams", in its order
Reported(outcome) ==
  IF outcome.kind = "exit0"
    THEN IF outcome.stdout.type = "object"
           THEN IF outcome.stdout.streams.type = "array"
                  THEN outcome.stdout.streams.items
                  ELSE <<>>
           ELSE <<>>
    ELSE <<>>

\* of those, the ones whose codec_type is "audio"
ReportedAudio(outcome) ==
  SelectSeq(Reported(outcome),
            LAMBDA s : "codec_type" \in DOMAIN s /\ s.codec_type = Audio)

\* the tool ran, exited 0 and printed JSON of the expected shape
WellShaped(outcome) ==
  /\ outcome.kind = "exit0"
  /\ outcome.stdout.type = "object"
  /\ outcome.stdout.streams.type \in {"absent", "null", "array"}

PathSupplied(d) == "path" \in DOMAIN d /\ d.path # None /\ d.path # <<>>

\* the last call had a path and the tool reported at least one audio stream
Decidable == call.n > 0 /\ PathSupplied(call.before) /\ Len(ReportedAudio(call.outcome)) > 0

\* the configured string is null, empty, or only commas and whitespace
BlankRaw(raw) == raw = None \/ \A i \in 1..Len(raw) : raw[i] \in {",", " "}

\* number of comma-separated pieces of raw that hold a non-whitespace character
NonBlankPieces(raw) ==
  LET bounds == {0, Len(raw) + 1} \cup {i \in 1..Len(raw) : raw[i] = ","}
      nextOf(a) == CHOOSE b \in bounds : b > a /\ \A c \in bounds : c > a => b <= c
  IN Cardinality({a \in bounds \ {Len(raw) + 1} :
                    \E i \in (a + 1)..(nextOf(a) - 1) : raw[i] # " "})

(***************************************************************************)
(* Properties                                                              *)
(***************************************************************************)
\* C1: the evaluator returns true exactly when some language-matching stream
\* has a lowercased codec name starting with "dts" and no language-matching
\* stream has a lowercased codec name equal to a member of {ac3, eac3} plus
\* truehd when treatTrueHDAsGood; streams outside a non-empty filter count
\* for neither condition.
C1_AdmissionRule ==
  eval.done =>
    (eval.result <=>
       Admits(eval.streams, 1..Len(eval.streams), eval.lang_tags, eval.treat))

C1_Witness ==
  /\ eval.done /\ eval.result /\ eval.lang_tags # <<>>
  /\ \E i, j \in 1..Len(eval.streams) :
       /\ StreamCodec(eval.streams[i]) = <<"d", "t", "s", "h", "d">>
       /\ LanguageMatching(eval.streams[i], eval.lang_tags)
       /\ StreamCodec(eval.streams[j]) = Ac3
       /\ ~LanguageMatching(eval.streams[j], eval.lang_tags)

\* C2: when a call is inconclusive (no path, or the tool failed, printed
\* nothing usable or reported no audio stream), add_file_to_pending_tasks is
\* after the call what it was before the call, unset included.
C2_InconclusiveKeepsFlag ==
  (call.n > 0 /\ ~Decidable) => FlagOf(data) = FlagOf(call.before)

C2_Witness ==
  /\ call.branch = "no_streams"
  /\ call.outcome.kind = "exit0"
  /\ Len(Reported(call.outcome)) > 0
  /\ FlagOf(call.before) = {TRUE}
  /\ FlagOf(data) = {TRUE}

\* C3: when a path is supplied and the prober yields at least one stream, the
\* flag is written and equals the evaluator's result for those streams under
\* the configured filter and TrueHD policy, whatever the flag was before.
C3_DecidedWritesFlag ==
  Decidable =>
    FlagOf(data) =
      { _has_de_dts_and_no_de_good(ReportedAudio(call.outcome),
                                   _parse_lang_tags(settings.lang_raw),
                                   settings.treat) }

C3_Witness ==
  /\ Decidable
  /\ call.branch = "not_admitted"
  /\ FlagOf(call.before) = {TRUE}
  /\ FlagOf(data) = {FALSE}

\* C4: every call that takes one of the four paths (missing path, zero
\* streams, admitted, not admitted) appends one entry with the plugin's id
\* and a message to issues, and no call changes or reorders the entries that
\* issues already held.
C4_IssuesAppendOnly ==
  [][ /\ IsPrefix(data.issues, data'.issues)
      /\ call'.branch \in {"no_path", "no_streams", "admitted", "not_admitted"} =>
           /\ Len(data'.issues) = Len(data.issues) + 1
           /\ data'.issues[Len(data'.issues)].id = PluginId
           /\ data'.issues[Len(data'.issues)].message # "" ]_vars

C4_Witness ==
  /\ call.n = 2
  /\ Len(data.issues) = 3
  /\ data.issues[1] = ForeignIssue
  /\ data.issues[2] = Issue(MsgNoStreams)
  /\ data.issues[3] = Issue(MsgAdmit)

\* C5: no call raises: for every record, configuration value and tool
\* outcome the handler returns normally, and a tool failure or output that is
\* not structured data of the expected shape ends in the abstain outcome
\* (undecided diagnostic appended, flag not mutated).
C5_NeverRaises ==
  call.n > 0 =>
    /\ ~call.raised
    /\ (PathSupplied(call.before) /\ ~WellShaped(call.outcome)) =>
         /\ call.branch = "no_streams"
         /\ data.issues = Append(call.before.issues, Issue(MsgNoStreams))
         /\ FlagOf(data) = FlagOf(call.before)

\* C6: for every path and tool outcome the prober returns the empty sequence
\* when the tool fails or its output is not parseable, and otherwise exactly
\* the reported entries whose codec_type is "audio", in reported order; a
\* result with only non-audio entries leads to the undecided outcome.
C6_ProberResult ==
  (call.n > 0 /\ PathSupplied(call.before)) =>
    /\ ~call.raised
    /\ call.streams = ReportedAudio(call.outcome)
    /\ Len(ReportedAudio(call.outcome)) = 0 => call.branch = "no_streams"

\* C7: the normalizer returns only tokens that are lowercase, non-empty and
\* free of leading and trailing whitespace, one for each comma-separated
\* piece that is non-empty after trimming; "" and None give no tokens.
C7_NormalizedTokens ==
  norm.done =>
    /\ (norm.raw = None \/ norm.raw = <<>>) => norm.out = <<>>
    /\ norm.raw # None => Len(norm.out) = NonBlankPieces(norm.raw)
    /\ \A k \in 1..Len(norm.out) :
         LET t == norm.out[k]
         IN /\ Len(t) > 0
            /\ t[1] # " " /\ t[Len(t)] # " "
            /\ \A j \in 1..Len(t) : t[j] \notin {"D", "E", ","}

C7_Witness ==
  /\ norm.done
  /\ norm.raw # None
  /\ Len(norm.out) = 2
  /\ \E i \in 1..Len(norm.raw) : norm.raw[i] = "E"
  /\ \E i \in 1..Len(norm.raw) : norm.raw[i] = " "

\* C8: the evaluator's result is the same for every permutation of the
\* stream sequence.
C8_OrderInsensitive ==
  eval.done =>
    \A p \in Permutations(1..Len(eval.streams)) :
      _has_de_dts_and_no_de_good([i \in 1..Len(eval.streams) |-> eval.streams[p[i]]],
                                 eval.lang_tags, eval.treat)
        = eval.result

C8_Witness ==
  /\ eval.done /\ ~eval.result
  /\ Len(eval.streams) = 2
  /\ LanguageMatching(eval.streams[1], eval.lang_tags)
  /\ LanguageMatching(eval.streams[2], eval.lang_tags)
  /\ StreamCodec(eval.streams[1]) = Ac3
  /\ StreamCodec(eval.streams[2]) = Dts

\* C9: when the configured string is empty, null or normalizes to no tokens,
\* every stream takes part in both checks whatever its language tag, absent
\* and empty tags included.
C9_EmptyFilterMatchesAll ==
  (Decidable /\ BlankRaw(settings.lang_raw)) =>
    FlagOf(data) =
      { /\ \E i \in 1..Len(call.streams) : DtsPrefixed(StreamCodec(call.streams[i]))
        /\ ~ \E i \in 1..Len(call.streams) :
               StreamCodec(call.streams[i]) \in AcceptableCodecs(settings.treat) }

C9_Witness ==
  /\ Decidable
  /\ settings.lang_raw = <<",", " ">>
  /\ call.branch = "admitted"
  /\ \E i \in 1..Len(call.streams) : StreamLang(call.streams[i]) = <<>>

\* C10: when the normalized filter is non-empty it holds no empty token, so a
\* stream whose language tag is absent or empty matches nothing and counts
\* for neither the DTS nor the acceptable-codec condition.
C10_EmptyLanguageNeverMatches ==
  LET tags == _parse_lang_tags(settings.lang_raw)
      tagged == {i \in 1..Len(call.streams) : StreamLang(call.streams[i]) # <<>>}
  IN (Decidable /\ tags # <<>>) =>
       /\ \A k \in 1..Len(tags) : tags[k] # <<>>
       /\ FlagOf(data) = { Admits(call.streams, tagged, tags, settings.treat) }

C10_Witness ==
  /\ Decidable
  /\ _parse_lang_tags(settings.lang_raw) # <<>>
  /\ call.branch = "not_admitted"
  /\ Len(call.streams) = 1
  /\ StreamLang(call.streams[1]) = <<>>
  /\ StreamCodec(call.streams[1]) = Dts

====
